---- MODULE Spec2Model ----
(***************************************************************************)
(* A model of the 6502 subset emulator of src/cpu.rs and src/opcode.rs:    *)
(* the CPU registers and memory, the opcode table, the addressing-mode     *)
(* resolver, the instruction handlers, the run loop and load/reset.        *)
(*                                                                         *)
(* Memory is the array `memory: [u8; 0xffff]`, zero-initialised.  It is    *)
(* represented by its non-zero pages: a function from the page number      *)
(* (address / 256) to the 256 bytes of the page, a page outside the domain *)
(* holding zeros only, and a page that becomes all zero leaving the        *)
(* domain, so that two equal arrays are one value.  Indices at or above    *)
(* MEM_SIZE are out of bounds and panic, as Rust's checked indexing does.  *)
(*                                                                         *)
(* A Rust panic is modelled as an outcome of the call: every operator that *)
(* can panic returns a record [val, panic], where panic is "" and val the  *)
(* value when it did not panic.  Bind chains two such computations as      *)
(* Rust's sequencing does: a panic of the first skips the second.          *)
(***************************************************************************)
EXTENDS Integers, Sequences, FiniteSets, TLC

VARIABLES a, x, y, status, program_counter, memory, outcome, calls, input

vars == <<a, x, y, status, program_counter, memory, outcome, calls, input>>

(***************************************************************************)
(* Bit operations on bytes (Rust's &, |, ^ and ! on u8).                   *)
(***************************************************************************)
RECURSIVE BitAnd(_, _)
BitAnd(p, q) ==
    IF p = 0 \/ q = 0 THEN 0
    ELSE (p % 2) * (q % 2) + 2 * BitAnd(p \div 2, q \div 2)

RECURSIVE BitOr(_, _)
BitOr(p, q) ==
    IF p = 0 THEN q
    ELSE IF q = 0 THEN p
    ELSE (IF p % 2 = 1 \/ q % 2 = 1 THEN 1 ELSE 0) + 2 * BitOr(p \div 2, q \div 2)

RECURSIVE BitXor(_, _)
BitXor(p, q) ==
    IF p = 0 THEN q
    ELSE IF q = 0 THEN p
    ELSE ((p + q) % 2) + 2 * BitXor(p \div 2, q \div 2)

BitNot(p) == 255 - p

AsU8(n) == n % 256

WrappingAdd8(p, q) == (p + q) % 256

WrappingAdd16(p, q) == (p + q) % 65536

(***************************************************************************)
(* Status flag masks.                                                      *)
(***************************************************************************)
ZERO_FLAG == 2

NEGATIVE_FLAG == 128

CARRY_FLAG == 1

OVERFLOW_FLAG == 64

(***************************************************************************)
(* Memory.                                                                 *)
(***************************************************************************)
MEM_SIZE == 65535

PROGRAM_BASE == 32768

RESET_VECTOR == 65532

Byte == 0 .. 255

NoPanic == ""

IndexPanic == "index out of bounds"

SlicePanic == "range end index out of range for slice"

OpcodePanic == "Invalid opcode"

ModePanic == "Invalid addressing mode"

UnreachablePanic == "internal error: entered unreachable code"

Return(v) == [val |-> v, panic |-> NoPanic]

Panic(msg) == [val |-> 0, panic |-> msg]

Bind(r, K(_)) ==
    LET first == r
    IN  IF first.panic # NoPanic THEN first ELSE K(first.val)

PageOf(addr) == addr \div 256

OffsetOf(addr) == addr % 256

BlankPage == [i \in 1 .. 256 |-> 0] \o <<>>

ZeroMemory == [q \in {} |-> BlankPage]

PageAt(mem, q) == IF q \in DOMAIN mem THEN mem[q] ELSE BlankPage

\* the value of a cell of the array
Cell(mem, addr) == PageAt(mem, PageOf(addr))[OffsetOf(addr) + 1]

\* the array with the pages `pages` replaced by what NewPage gives them
WithPages(mem, pages, NewPage(_)) ==
    LET After(q) == IF q \in pages THEN NewPage(q) ELSE mem[q]
    IN  [q \in {r \in DOMAIN mem \cup pages : After(r) # BlankPage} |-> After(q)]

\* the array with one cell replaced
Store(mem, addr, value) ==
    WithPages(mem, {PageOf(addr)},
              LAMBDA q : [PageAt(mem, q) EXCEPT ![OffsetOf(addr) + 1] = value])

mem_read(c, addr) ==
    IF addr < MEM_SIZE THEN Return(Cell(c.memory, addr)) ELSE Panic(IndexPanic)

mem_write(c, addr, value) ==
    IF addr < MEM_SIZE
    THEN Return([c EXCEPT !.memory = Store(@, addr, value)])
    ELSE Panic(IndexPanic)

\* little endian: the low byte is read first; pos + 1 is evaluated only
\* after the read of pos succeeded, so pos <= 0xfffe there and the u16
\* addition cannot overflow
mem_read_u16(c, pos) ==
    Bind(mem_read(c, pos), LAMBDA lo :
    Bind(mem_read(c, pos + 1), LAMBDA hi :
    Return(BitOr(hi * 256, lo))))

\* mem_write_u16 writing the high byte first (big endian)
mem_write_u16_big_endian(c, pos, data) ==
    Bind(mem_write(c, pos, AsU8(data \div 256)), LAMBDA c1 :
    mem_write(c1, pos + 1, AsU8(BitAnd(data, 255))))

mem_write_u16(c, pos, data) ==
    Bind(mem_write(c, pos, AsU8(BitAnd(data, 255))), LAMBDA c1 :
    mem_write(c1, pos + 1, AsU8(data \div 256)))

(***************************************************************************)
(* The opcode table (src/opcode.rs).                                       *)
(***************************************************************************)
OpCode(hex, mnemonic, bytes, cycles, mode) ==
    [hex |-> hex, mnemonic |-> mnemonic, bytes |-> bytes, cycles |-> cycles,
     mode |-> mode]

AddressingMode ==
    {"Immediate", "ZeroPage", "ZeroPageX", "ZeroPageY", "Absolute", "AbsoluteX",
     "AbsoluteY", "IndirectX", "IndirectY", "NoneAddressing"}

\* the table with 0xa1 typed for the 0xb1 of the last entry of LDA
CPU_OP_CODES_repeated ==
    << \* ADC
       OpCode(105, "ADC", 2, 3, "Immediate"),
       OpCode(101, "ADC", 2, 3, "ZeroPage"),
       OpCode(117, "ADC", 2, 4, "ZeroPageX"),
       OpCode(109, "ADC", 3, 4, "Absolute"),
       OpCode(125, "ADC", 3, 4, "AbsoluteY"),
       OpCode(121, "ADC", 3, 4, "AbsoluteY"),
       OpCode(97, "ADC", 2, 6, "IndirectX"),
       OpCode(113, "ADC", 2, 5, "IndirectY"),
       \* LDA
       OpCode(169, "LDA", 2, 2, "Immediate"),
       OpCode(165, "LDA", 2, 3, "ZeroPage"),
       OpCode(181, "LDA", 2, 4, "ZeroPageX"),
       OpCode(173, "LDA", 3, 4, "Absolute"),
       OpCode(189, "LDA", 3, 4, "AbsoluteX"),
       OpCode(185, "LDA", 3, 4, "AbsoluteY"),
       OpCode(161, "LDA", 2, 6, "IndirectX"),
       OpCode(161, "LDA", 2, 5, "IndirectX"),
       \* STA
       OpCode(133, "STA", 2, 3, "ZeroPage"),
       OpCode(149, "STA", 2, 4, "ZeroPageX"),
       OpCode(141, "STA", 3, 4, "Absolute"),
       OpCode(157, "STA", 3, 5, "AbsoluteX"),
       OpCode(153, "STA", 3, 5, "AbsoluteY"),
       OpCode(129, "STA", 2, 6, "IndirectX"),
       OpCode(145, "STA", 2, 6, "IndirectY"),
       \* TAX
       OpCode(170, "TAX", 1, 2, "NoneAddressing"),
       \* INX
       OpCode(232, "INX", 1, 2, "NoneAddressing"),
       \* BRK
       OpCode(0, "BRK", 1, 7, "NoneAddressing") >>

CPU_OP_CODES ==
    << \* ADC
       OpCode(105, "ADC", 2, 3, "Immediate"),
       OpCode(101, "ADC", 2, 3, "ZeroPage"),
       OpCode(117, "ADC", 2, 4, "ZeroPageX"),
       OpCode(109, "ADC", 3, 4, "Absolute"),
       OpCode(125, "ADC", 3, 4, "AbsoluteY"),
       OpCode(121, "ADC", 3, 4, "AbsoluteY"),
       OpCode(97, "ADC", 2, 6, "IndirectX"),
       OpCode(113, "ADC", 2, 5, "IndirectY"),
       \* LDA
       OpCode(169, "LDA", 2, 2, "Immediate"),
       OpCode(165, "LDA", 2, 3, "ZeroPage"),
       OpCode(181, "LDA", 2, 4, "ZeroPageX"),
       OpCode(173, "LDA", 3, 4, "Absolute"),
       OpCode(189, "LDA", 3, 4, "AbsoluteX"),
       OpCode(185, "LDA", 3, 4, "AbsoluteY"),
       OpCode(161, "LDA", 2, 6, "IndirectX"),
       OpCode(177, "LDA", 2, 5, "IndirectX"),
       \* STA
       OpCode(133, "STA", 2, 3, "ZeroPage"),
       OpCode(149, "STA", 2, 4, "ZeroPageX"),
       OpCode(141, "STA", 3, 4, "Absolute"),
       OpCode(157, "STA", 3, 5, "AbsoluteX"),
       OpCode(153, "STA", 3, 5, "AbsoluteY"),
       OpCode(129, "STA", 2, 6, "IndirectX"),
       OpCode(145, "STA", 2, 6, "IndirectY"),
       \* TAX
       OpCode(170, "TAX", 1, 2, "NoneAddressing"),
       \* INX
       OpCode(232, "INX", 1, 2, "NoneAddressing"),
       \* BRK
       OpCode(0, "BRK", 1, 7, "NoneAddressing") >>

\* from_u8 with an unknown opcode decoded as BRK instead of the panic
from_u8_lenient(val) ==
    LET hits == {i \in 1 .. Len(CPU_OP_CODES) : CPU_OP_CODES[i].hex = val}
    IN  IF hits = {}
        THEN Return(OpCode(val, "BRK", 1, 7, "NoneAddressing"))
        ELSE Return(CPU_OP_CODES[CHOOSE i \in hits : \A j \in hits : i <= j])

\* the first entry of the table with this opcode value, or the panic
from_u8(val) ==
    LET hits == {i \in 1 .. Len(CPU_OP_CODES) : CPU_OP_CODES[i].hex = val}
    IN  IF hits = {}
        THEN Panic(OpcodePanic)
        ELSE Return(CPU_OP_CODES[CHOOSE i \in hits : \A j \in hits : i <= j])

(***************************************************************************)
(* The CPU (src/cpu.rs).  A value of the struct is a record; the variables *)
(* of the module are the fields of the one CPU under test.                 *)
(***************************************************************************)
new ==
    [a |-> 0, x |-> 0, y |-> 0, status |-> 0, program_counter |-> 0,
     memory |-> ZeroMemory]

CPU ==
    [a |-> a, x |-> x, y |-> y, status |-> status,
     program_counter |-> program_counter, memory |-> memory]

\* the resolver with pos as u16 + x as u16 for pos.wrapping_add(x)
get_operand_address_unwrapped(c, mode) ==
    CASE mode = "Immediate" -> Return(c.program_counter)
      [] mode = "ZeroPage" -> mem_read(c, c.program_counter)
      [] mode = "Absolute" -> mem_read_u16(c, c.program_counter)
      [] mode = "ZeroPageX" ->
            Bind(mem_read(c, c.program_counter), LAMBDA pos :
            Return(pos + c.x))
      [] mode = "ZeroPageY" ->
            Bind(mem_read(c, c.program_counter), LAMBDA pos :
            Return(WrappingAdd8(pos, c.y)))
      [] mode = "AbsoluteX" ->
            Bind(mem_read_u16(c, c.program_counter), LAMBDA base :
            Return(WrappingAdd16(base, c.x)))
      [] mode = "AbsoluteY" ->
            Bind(mem_read_u16(c, c.program_counter), LAMBDA base :
            Return(WrappingAdd16(base, c.y)))
      [] mode = "IndirectX" ->
            Bind(mem_read(c, c.program_counter), LAMBDA base :
            mem_read_u16(c, WrappingAdd8(base, c.x)))
      [] mode = "IndirectY" ->
            Bind(mem_read(c, c.program_counter), LAMBDA base :
            Bind(mem_read_u16(c, base), LAMBDA deref_base :
            Return(WrappingAdd16(deref_base, c.y))))
      [] OTHER -> Panic(ModePanic)

\* the resolver with IndirectX indexed after the dereference, as IndirectY
get_operand_address_post_indexed(c, mode) ==
    CASE mode = "Immediate" -> Return(c.program_counter)
      [] mode = "ZeroPage" -> mem_read(c, c.program_counter)
      [] mode = "Absolute" -> mem_read_u16(c, c.program_counter)
      [] mode = "ZeroPageX" ->
            Bind(mem_read(c, c.program_counter), LAMBDA pos :
            Return(WrappingAdd8(pos, c.x)))
      [] mode = "ZeroPageY" ->
            Bind(mem_read(c, c.program_counter), LAMBDA pos :
            Return(WrappingAdd8(pos, c.y)))
      [] mode = "AbsoluteX" ->
            Bind(mem_read_u16(c, c.program_counter), LAMBDA base :
            Return(WrappingAdd16(base, c.x)))
      [] mode = "AbsoluteY" ->
            Bind(mem_read_u16(c, c.program_counter), LAMBDA base :
            Return(WrappingAdd16(base, c.y)))
      [] mode = "IndirectX" ->
            Bind(mem_read(c, c.program_counter), LAMBDA base :
            Bind(mem_read_u16(c, base), LAMBDA deref_base :
            Return(WrappingAdd16(deref_base, c.x))))
      [] mode = "IndirectY" ->
            Bind(mem_read(c, c.program_counter), LAMBDA base :
            Bind(mem_read_u16(c, base), LAMBDA deref_base :
            Return(WrappingAdd16(deref_base, c.y))))
      [] OTHER -> Panic(ModePanic)

get_operand_address(c, mode) ==
    CASE mode = "Immediate" -> Return(c.program_counter)
      [] mode = "ZeroPage" -> mem_read(c, c.program_counter)
      [] mode = "Absolute" -> mem_read_u16(c, c.program_counter)
      [] mode = "ZeroPageX" ->
            Bind(mem_read(c, c.program_counter), LAMBDA pos :
            Return(WrappingAdd8(pos, c.x)))
      [] mode = "ZeroPageY" ->
            Bind(mem_read(c, c.program_counter), LAMBDA pos :
            Return(WrappingAdd8(pos, c.y)))
      [] mode = "AbsoluteX" ->
            Bind(mem_read_u16(c, c.program_counter), LAMBDA base :
            Return(WrappingAdd16(base, c.x)))
      [] mode = "AbsoluteY" ->
            Bind(mem_read_u16(c, c.program_counter), LAMBDA base :
            Return(WrappingAdd16(base, c.y)))
      [] mode = "IndirectX" ->
            Bind(mem_read(c, c.program_counter), LAMBDA base :
            mem_read_u16(c, WrappingAdd8(base, c.x)))
      [] mode = "IndirectY" ->
            Bind(mem_read(c, c.program_counter), LAMBDA base :
            Bind(mem_read_u16(c, base), LAMBDA deref_base :
            Return(WrappingAdd16(deref_base, c.y))))
      [] OTHER -> Panic(ModePanic)

\* the update with = ZERO_FLAG for | ZERO_FLAG
update_zero_and_negative_flags_assigning(c, result) ==
    LET s1 == IF result = 0
              THEN ZERO_FLAG
              ELSE BitAnd(c.status, BitNot(ZERO_FLAG))
        s2 == IF BitAnd(result, 128) # 0
              THEN BitOr(s1, NEGATIVE_FLAG)
              ELSE BitAnd(s1, BitNot(NEGATIVE_FLAG))
    IN  [c EXCEPT !.status = s2]

update_zero_and_negative_flags(c, result) ==
    LET s1 == IF result = 0
              THEN BitOr(c.status, ZERO_FLAG)
              ELSE BitAnd(c.status, BitNot(ZERO_FLAG))
        s2 == IF BitAnd(result, 128) # 0
              THEN BitOr(s1, NEGATIVE_FLAG)
              ELSE BitAnd(s1, BitNot(NEGATIVE_FLAG))
    IN  [c EXCEPT !.status = s2]

\* the update with 0b0010_0000 for 32
update_overflow_flag_bit5(c, overflow) ==
    [c EXCEPT !.status = IF overflow
                         THEN BitOr(@, 32)
                         ELSE BitAnd(@, BitNot(32))]

update_overflow_flag(c, overflow) ==
    [c EXCEPT !.status = IF overflow
                         THEN BitOr(@, OVERFLOW_FLAG)
                         ELSE BitAnd(@, BitNot(OVERFLOW_FLAG))]

update_carry_flag(c, carry) ==
    [c EXCEPT !.status = IF carry
                         THEN BitOr(@, CARRY_FLAG)
                         ELSE BitAnd(@, BitNot(CARRY_FLAG))]

\* adc that does not add the carry flag
adc_without_carry_in(c, mode) ==
    Bind(get_operand_address(c, mode), LAMBDA addr :
    Bind(mem_read(c, addr), LAMBDA value :
    LET res == c.a + value
        carry == res > 255
        c1 == update_carry_flag(c, carry)
        overflow ==
            BitAnd(BitAnd(BitXor(c1.a, AsU8(res)), BitXor(value, AsU8(res))), 128) # 0
        c2 == update_overflow_flag(c1, overflow)
        c3 == [c2 EXCEPT !.a = AsU8(res)]
    IN  Return(update_zero_and_negative_flags(c3, AsU8(res)))))

adc(c, mode) ==
    Bind(get_operand_address(c, mode), LAMBDA addr :
    Bind(mem_read(c, addr), LAMBDA value :
    LET previous_carry == BitAnd(c.status, CARRY_FLAG)
        res == c.a + value + previous_carry
        carry == res > 255
        c1 == update_carry_flag(c, carry)
        overflow ==
            BitAnd(BitAnd(BitXor(c1.a, AsU8(res)), BitXor(value, AsU8(res))), 128) # 0
        c2 == update_overflow_flag(c1, overflow)
        c3 == [c2 EXCEPT !.a = AsU8(res)]
    IN  Return(update_zero_and_negative_flags(c3, AsU8(res)))))

and(c, mode) ==
    Bind(get_operand_address(c, mode), LAMBDA addr :
    Bind(mem_read(c, addr), LAMBDA value :
    LET c1 == [c EXCEPT !.a = BitAnd(@, value)]
    IN  Return(update_zero_and_negative_flags(c1, c1.a))))

lda(c, mode) ==
    Bind(get_operand_address(c, mode), LAMBDA addr :
    Bind(mem_read(c, addr), LAMBDA value :
    Return(update_zero_and_negative_flags([c EXCEPT !.a = value], value))))

sta(c, mode) ==
    Bind(get_operand_address(c, mode), LAMBDA addr :
    mem_write(c, addr, c.a))

\* tax that sets the flags from A and leaves X
tax_flags_only(c) ==
    Return(update_zero_and_negative_flags(c, c.a))

tax(c) ==
    LET c1 == [c EXCEPT !.x = c.a]
    IN  Return(update_zero_and_negative_flags(c1, c1.x))

\* inx that stays at 0xff
inx_saturating(c) ==
    LET c1 == [c EXCEPT !.x = IF @ = 255 THEN 255 ELSE @ + 1]
    IN  Return(update_zero_and_negative_flags(c1, c1.x))

inx(c) ==
    LET c1 == [c EXCEPT !.x = WrappingAdd8(@, 1)]
    IN  Return(update_zero_and_negative_flags(c1, c1.x))

\* the match with the arm of LDA pasted for TAX
dispatch_tax_as_lda(c, opcode) ==
    CASE opcode.mnemonic = "ADC" -> adc(c, opcode.mode)
      [] opcode.mnemonic = "AND" -> and(c, opcode.mode)
      [] opcode.mnemonic = "LDA" -> lda(c, opcode.mode)
      [] opcode.mnemonic = "STA" -> sta(c, opcode.mode)
      [] opcode.mnemonic = "TAX" -> lda(c, opcode.mode)
      [] opcode.mnemonic = "INX" -> inx(c)
      [] OTHER -> Panic(UnreachablePanic)

\* the handler run picks for a mnemonic other than BRK
dispatch(c, opcode) ==
    CASE opcode.mnemonic = "ADC" -> adc(c, opcode.mode)
      [] opcode.mnemonic = "AND" -> and(c, opcode.mode)
      [] opcode.mnemonic = "LDA" -> lda(c, opcode.mode)
      [] opcode.mnemonic = "STA" -> sta(c, opcode.mode)
      [] opcode.mnemonic = "TAX" -> tax(c)
      [] opcode.mnemonic = "INX" -> inx(c)
      [] OTHER -> Panic(UnreachablePanic)

\* the CPU when an iteration of the loop of run ends, whether run returned
\* from it, and the panic that ended it
Stepped(c, returned, panic) == [cpu |-> c, returned |-> returned, panic |-> panic]

\* the end of an iteration: the program counter skips the operand bytes;
\* a panic of the handler leaves the CPU as the handler found it (every
\* handler panics, if at all, before its first assignment)
advance(c, opcode, r) ==
    IF r.panic # NoPanic THEN Stepped(c, FALSE, r.panic)
    ELSE Stepped([r.val EXCEPT !.program_counter = @ + (opcode.bytes - 1)],
                 FALSE, NoPanic)

\* the match on the mnemonic, with the program counter past the opcode
execute(c, opcode) ==
    IF opcode.mnemonic = "BRK" THEN Stepped(c, TRUE, NoPanic)
    ELSE advance(c, opcode, dispatch(c, opcode))

\* the fetch without program_counter += 1
decode_without_increment(c, found) ==
    IF found.panic # NoPanic THEN Stepped(c, FALSE, found.panic)
    ELSE execute(c, found.val)

decode(c, found) ==
    IF found.panic # NoPanic THEN Stepped(c, FALSE, found.panic)
    ELSE execute([c EXCEPT !.program_counter = @ + 1], found.val)

\* one iteration of the loop of run.  The fetch at 0xffff panics before
\* program_counter += 1, and an operand read at 0xffff panics before
\* program_counter += bytes - 1, so neither addition overflows a u16.
step(c) ==
    decode(c, Bind(mem_read(c, c.program_counter), LAMBDA byte : from_u8(byte)))

\* copy_from_slice with the last byte of the program left out
copy_from_slice_short(mem, program) ==
    LET n == Len(program) - 1
        NewCell(addr) ==
            IF addr >= PROGRAM_BASE /\ addr < PROGRAM_BASE + n
            THEN program[addr - PROGRAM_BASE + 1]
            ELSE Cell(mem, addr)
    IN  WithPages(mem, {PageOf(PROGRAM_BASE + (k - 1)) : k \in 1 .. n},
                  LAMBDA q : [i \in 1 .. 256 |-> NewCell(256 * q + (i - 1))] \o <<>>)

\* memory[0x8000 .. 0x8000 + len].copy_from_slice(program)
copy_from_slice(mem, program) ==
    LET n == Len(program)
        NewCell(addr) ==
            IF addr >= PROGRAM_BASE /\ addr < PROGRAM_BASE + n
            THEN program[addr - PROGRAM_BASE + 1]
            ELSE Cell(mem, addr)
    IN  WithPages(mem, {PageOf(PROGRAM_BASE + (k - 1)) : k \in 1 .. n},
                  LAMBDA q : [i \in 1 .. 256 |-> NewCell(256 * q + (i - 1))] \o <<>>)

load(c, program) ==
    IF PROGRAM_BASE + Len(program) > MEM_SIZE
    THEN Panic(SlicePanic)
    ELSE mem_write_u16([c EXCEPT !.memory = copy_from_slice(@, program)],
                       RESET_VECTOR, PROGRAM_BASE)

reset(c) ==
    Bind(mem_read_u16(c, RESET_VECTOR), LAMBDA vector :
    Return([c EXCEPT !.a = 0, !.x = 0, !.status = 0, !.program_counter = vector]))

\* load_and_run up to its call of run: load, then reset
load_then_reset(c, program) ==
    Bind(load(c, program), LAMBDA c1 : reset(c1))

(***************************************************************************)
(* The state machine: one CPU, and a caller that constructs it and then    *)
(* calls its public operations (and, as the tests of src/cpu.rs do, writes *)
(* its public fields and memory cells).  `calls` is the sequence of calls  *)
(* made so far, `outcome` the state of the last one: returned ("ok"),      *)
(* inside the loop of run ("pending") or ended by a panic.  A panic ends   *)
(* the behaviour: the CPU is not used again.  `input` is the program given *)
(* to the latest load or load_and_run.                                     *)
(***************************************************************************)
Ok == [kind |-> "ok", msg |-> NoPanic]

Pending == [kind |-> "pending", msg |-> NoPanic]

Panicked(msg) == [kind |-> "panic", msg |-> msg]

Install(c) ==
    /\ a' = c.a
    /\ x' = c.x
    /\ y' = c.y
    /\ status' = c.status
    /\ program_counter' = c.program_counter
    /\ memory' = c.memory

Last(s) == s[Len(s)]

\* the number of calls a caller makes after CPU::new()
MaxCalls == 2

CanCall == outcome = Ok /\ Len(calls) <= MaxCalls

\* the programs of the tests of src/cpu.rs, and programs that reach the
\* last cells of memory, an opcode with no table entry, and the indexed and
\* indirect modes
Programs ==
    { <<169, 192, 170, 232, 0>>,      \* LDA #$C0; TAX; INX; BRK
      <<165, 0, 133, 105, 0>>,        \* LDA $00; STA $69; BRK
      <<165, 105>>,                   \* LDA $69, no BRK
      <<105, 5, 0>>,                  \* ADC #$05; BRK
      <<41, 170, 0>>,                 \* AND #$AA; BRK
      <<173, 255, 255, 0>>,           \* LDA $FFFF; BRK
      <<141, 255, 255, 0>>,           \* STA $FFFF; BRK
      <<177, 16, 149, 255, 0>>,       \* LDA ($10),Y; STA $FF,X; BRK
      <<169, 128, 105, 128, 0>> }     \* LDA #$80; ADC #$80; BRK

\* writes of the public fields, as `cpu.a = 0b1010_1010` in the tests
FieldWrites ==
    { <<"a", 170>>, <<"x", 2>>, <<"y", 1>>, <<"status", 195>>,
      <<"program_counter", 32768>> }

\* writes of memory cells, as `cpu.mem_write(0x10, 0x05)` in the tests
CellWrites == { <<16, 5>>, <<0, 42>>, <<17, 128>> }

Init ==
    /\ a = new.a
    /\ x = new.x
    /\ y = new.y
    /\ status = new.status
    /\ program_counter = new.program_counter
    /\ memory = new.memory
    /\ outcome = Ok
    /\ calls = <<"new">>
    /\ input = <<>>

\* the end of a call that returns the CPU it leaves, or panics with the CPU
\* unchanged: `entered` is the outcome when it did not panic
Finish(r, entered) ==
    /\ Install(IF r.panic # NoPanic THEN CPU ELSE r.val)
    /\ outcome' = IF r.panic # NoPanic THEN Panicked(r.panic) ELSE entered

Load(program) ==
    /\ CanCall
    /\ Finish(load(CPU, program), Ok)
    /\ calls' = Append(calls, "load")
    /\ input' = program

Reset ==
    /\ CanCall
    /\ Finish(reset(CPU), Ok)
    /\ calls' = Append(calls, "reset")
    /\ UNCHANGED input

\* the call of run: the loop is entered, its iterations are RunStep
Run ==
    /\ CanCall
    /\ outcome' = Pending
    /\ calls' = Append(calls, "run")
    /\ UNCHANGED <<a, x, y, status, program_counter, memory, input>>

\* load_and_run up to the entry of the loop of run
LoadAndRun(program) ==
    /\ CanCall
    /\ Finish(load_then_reset(CPU, program), Pending)
    /\ calls' = Append(calls, "load_and_run")
    /\ input' = program

Iterate(r) ==
    /\ Install(r.cpu)
    /\ outcome' = IF r.panic # NoPanic THEN Panicked(r.panic)
                  ELSE IF r.returned THEN Ok ELSE Pending

\* one iteration of the loop of run
RunStep ==
    /\ outcome = Pending
    /\ Iterate(step(CPU))
    /\ UNCHANGED <<calls, input>>

WriteField(field, value) ==
    /\ CanCall
    /\ Install([CPU EXCEPT ![field] = value])
    /\ calls' = Append(calls, "write_field")
    /\ UNCHANGED <<outcome, input>>

WriteCell(addr, value) ==
    /\ CanCall
    /\ Finish(mem_write(CPU, addr, value), Ok)
    /\ calls' = Append(calls, "mem_write")
    /\ UNCHANGED input

Next ==
    \/ \E program \in Programs : Load(program)
    \/ Reset
    \/ Run
    \/ \E program \in Programs : LoadAndRun(program)
    \/ RunStep
    \/ \E w \in FieldWrites : WriteField(w[1], w[2])
    \/ \E w \in CellWrites : WriteCell(w[1], w[2])

Spec == Init /\ [][Next]_vars

(***************************************************************************)
(* load and reset from any prior state of the CPU (LoadSpec): the fields   *)
(* and cells are what a caller wrote before the calls that are logged, and *)
(* the programs reach up to, onto and past the reset vector and the end of *)
(* memory.                                                                 *)
(***************************************************************************)
\* the sequence of n bytes `byte`
Fill(n, byte) == [i \in 1 .. n |-> byte] \o <<>>

LoadPrograms ==
    { <<>>,
      <<169, 192, 170, 232, 0>>,
      Fill(32764, 232),       \* ends at 0xFFFB, the cell below the reset vector
      Fill(32765, 232),       \* ends at 0xFFFC
      Fill(32767, 232),       \* ends at 0xFFFE, the last cell of memory
      Fill(32768, 232) }      \* ends at 0xFFFF

\* the memory after the writes of a sequence of <<address, value>>
RECURSIVE Written(_, _)
Written(mem, writes) ==
    IF writes = <<>> THEN mem
    ELSE Written(Store(mem, Head(writes)[1], Head(writes)[2]), Tail(writes))

PriorMemories ==
    { ZeroMemory,
      Written(ZeroMemory,
              << <<16, 5>>, <<32768, 234>>, <<32771, 7>>, <<32780, 9>>,
                 <<65532, 52>>, <<65533, 18>>, <<65534, 9>> >>) }

InitLoad ==
    /\ a = 170
    /\ x = 2
    /\ y \in {0, 1}
    /\ status \in {0, 195}
    /\ program_counter = 4660
    /\ memory \in PriorMemories
    /\ outcome = Ok
    /\ calls = <<"new">>
    /\ input = <<>>

NextLoad ==
    \/ \E program \in LoadPrograms : Load(program)
    \/ Reset

LoadSpec == InitLoad /\ [][NextLoad]_vars

(***************************************************************************)
(* load_and_run of LDA #v; TAX; INX; BRK on a new CPU, for every byte v    *)
(* (LdaTaxInxSpec).                                                        *)
(***************************************************************************)
LdaTaxInx(v) == <<169, v, 170, 232, 0>>

NextLdaTaxInx ==
    \/ calls = <<"new">> /\ \E v \in Byte : LoadAndRun(LdaTaxInx(v))
    \/ RunStep

LdaTaxInxSpec == Init /\ [][NextLdaTaxInx]_vars

(***************************************************************************)
(* load_and_run of n INX and a BRK on a new CPU (InxSpec): the short       *)
(* programs up to past the wrap of X at 256, the longest one that ends     *)
(* below the reset vector and one that does not fit in memory.             *)
(***************************************************************************)
MaxInx == 258

InxThenBrk(n) == Fill(n, 232) \o <<0>>

InxCounts == 0 .. MaxInx \cup {32764, 32767}

NextInx ==
    \/ calls = <<"new">> /\ \E n \in InxCounts : LoadAndRun(InxThenBrk(n))
    \/ RunStep

InxSpec == Init /\ [][NextInx]_vars

(***************************************************************************)
(* One ADC #m from every accumulator, operand and carry (AdcSpec): the     *)
(* program is loaded, the CPU reset, a and status written as the tests of  *)
(* src/cpu.rs write a, and run entered.  The statuses have every flag      *)
(* clear or set before the instruction.                                    *)
(***************************************************************************)
AdcImmediate(m) == <<105, m, 0>>

AdcStatuses == {0, CARRY_FLAG, 194, 195}

InitAdc ==
    \E m \in Byte :
        LET c == load_then_reset(new, AdcImmediate(m)).val
        IN  /\ memory = c.memory
            /\ program_counter = c.program_counter
            /\ x = c.x
            /\ y = c.y
            /\ input = AdcImmediate(m)
            /\ a \in Byte
            /\ status \in AdcStatuses
            /\ outcome = Pending
            /\ calls = <<"new", "load", "reset", "write_field", "write_field", "run">>

NextAdc == RunStep

AdcSpec == InitAdc /\ [][NextAdc]_vars

(***************************************************************************)
(* One LDA #r, TAX or INX from every status and every result byte          *)
(* (FlagSpec): the program is loaded, the CPU reset, the register the      *)
(* instruction reads and status written, and run entered.                  *)
(***************************************************************************)
LdaImmediate(r) == <<169, r, 0>>

TaxThenBrk == <<170, 0>>

InxOnce == <<232, 0>>

\* the CPU in run after load(program), reset, one register and status written
InitFlagged(program) ==
    LET c == load_then_reset(new, program).val
    IN  /\ memory = c.memory
        /\ program_counter = c.program_counter
        /\ y = c.y
        /\ input = program
        /\ status \in Byte
        /\ outcome = Pending
        /\ calls = <<"new", "load", "reset", "write_field", "write_field", "run">>

InitFlag ==
    \/ \E r \in Byte : InitFlagged(LdaImmediate(r)) /\ a = 0 /\ x = 0
    \/ InitFlagged(TaxThenBrk) /\ a \in Byte /\ x = 0
    \/ InitFlagged(InxOnce) /\ a = 0 /\ x \in Byte

NextFlag == RunStep

FlagSpec == InitFlag /\ [][NextFlag]_vars

(***************************************************************************)
(* get_operand_address as a handler calls it (ResolveSpec): the program    *)
(* counter is at the first operand byte of an instruction at 0x8000, the   *)
(* operand bytes, X and Y are drawn from sets with the wrapping cases, and *)
(* the zero page and the cell 0x0100 hold one of two patterns.  The        *)
(* outcome of the call is the address it returns, with the mode asked.     *)
(***************************************************************************)
Resolved(mode, addr) == [kind |-> "address", msg |-> NoPanic, mode |-> mode, val |-> addr]

\* cell i of pattern 1 differs from cell to cell; pattern 2 is 0xff everywhere
PatternCell(k, i) == IF k = 1 THEN (i * 7 + 3) % 256 ELSE 255

\* the pattern in 0x0000..0x0100 and an instruction lo, hi at 0x8000
OperandMemory(k, lo, hi) ==
    WithPages(ZeroMemory, {0, 1, 128},
              LAMBDA q : [i \in 1 .. 256 |->
                  CASE q = 0 -> PatternCell(k, i - 1)
                    [] q = 1 -> IF i = 1 THEN PatternCell(k, 256) ELSE 0
                    [] q = 128 -> CASE i = 1 -> 189
                                    [] i = 2 -> lo
                                    [] i = 3 -> hi
                                    [] OTHER -> 0] \o <<>>)

OperandHighs == {0, 128, 255}

IndexValues == {0, 2, 128, 255}

InitResolve ==
    \E k \in {1, 2}, lo \in Byte, hi \in OperandHighs :
        /\ memory = OperandMemory(k, lo, hi)
        /\ input = <<189, lo, hi>>
        /\ program_counter = 32769
        /\ a = 0
        /\ x \in IndexValues
        /\ y \in IndexValues
        /\ status = 0
        /\ outcome = Pending
        /\ calls = <<"new", "load", "reset", "write_field", "write_field", "run">>

\* a call of get_operand_address: it takes &self and changes no state
Resolve(mode) ==
    /\ outcome = Pending
    /\ Last(calls) = "run"
    /\ LET r == get_operand_address(CPU, mode)
       IN  outcome' = IF r.panic # NoPanic THEN Panicked(r.panic)
                      ELSE Resolved(mode, r.val)
    /\ calls' = Append(calls, "get_operand_address")
    /\ UNCHANGED <<a, x, y, status, program_counter, memory, input>>

NextResolve == \E mode \in AddressingMode : Resolve(mode)

ResolveSpec == InitResolve /\ [][NextResolve]_vars

(***************************************************************************)
(* run from a program counter, registers and memory a caller has written   *)
(* (TermSpec): programs with and without a BRK, with stores into the       *)
(* cells run executes next, with an opcode that is not in the table, and   *)
(* placed at 0x8000, in the zero page and against the end of memory.       *)
(***************************************************************************)
TermPrograms ==
    { <<0>>,                                \* BRK
      <<232, 232, 232>>,                    \* INX; INX; INX
      <<169, 232, 170>>,                    \* LDA #$E8; TAX
      <<141, 3, 128, 0, 232>>,              \* STA $8003 (its BRK); BRK; INX
      <<133, 243, 232, 0, 0>>,              \* STA $F3 (its BRK); INX; BRK; BRK
      <<157, 252, 255, 232, 232>>,          \* STA $FFFC,X; INX; INX
      <<173, 255, 255>>,                    \* LDA $FFFF
      <<232, 255>> }                        \* INX; a byte outside the table

TermBases == {240, 32768}

\* the memory with the program at base and zeros elsewhere
PlaceAt(base, program) ==
    Written(ZeroMemory, [i \in 1 .. Len(program) |-> <<base + (i - 1), program[i]>>])

InitTerm ==
    \E program \in TermPrograms :
        \E base \in TermBases \cup {MEM_SIZE - Len(program)} :
            /\ memory = PlaceAt(base, program)
            /\ program_counter = base
            /\ input = program
            /\ a \in {0, 232}
            /\ x \in {0, 1, 255}
            /\ y = 0
            /\ status \in {0, 195}
            /\ outcome = Pending
            /\ calls = <<"new", "mem_write", "write_field", "run">>

NextTerm == RunStep

TermSpec == InitTerm /\ [][NextTerm]_vars

(***************************************************************************)
(* The claims.                                                             *)
(***************************************************************************)
\* a flag of a status byte, by its mask
FlagSet(s, mask) == (s \div mask) % 2 = 1

\* the little-endian 16-bit value of two cells
Word(mem, addr) == Cell(mem, addr) + 256 * Cell(mem, addr + 1)

InTable(byte) == \E i \in 1 .. Len(CPU_OP_CODES) : CPU_OP_CODES[i].hex = byte

Registers == <<a, x, y, status>>

\* C1: no call of load, reset or run ends in an out-of-range memory access:
\* every address 0x0000..0xFFFF, 0xFFFF included, can be read and written.
C1_NoOutOfRangeAccess ==
    ~(outcome.kind = "panic" /\ outcome.msg \in {IndexPanic, SlicePanic})

\* C2: reset(), called in any CPU state, leaves a = 0, x = 0, y = 0 and
\* status = 0, sets the program counter to the little-endian word at
\* 0xFFFC/0xFFFD and changes no memory cell.
C2_ResetContract ==
    [][calls' = Append(calls, "reset") =>
          /\ a' = 0 /\ x' = 0 /\ y' = 0 /\ status' = 0
          /\ program_counter' = Word(memory, 65532)
          /\ memory' = memory
          /\ outcome' = Ok]_vars

AddressedModes ==
    {"Immediate", "ZeroPage", "ZeroPageX", "Absolute", "AbsoluteX", "AbsoluteY",
     "IndirectX", "IndirectY"}

RequiredEntries ==
    ({"ADC", "AND", "LDA"} \X AddressedModes)
        \cup ({"STA"} \X (AddressedModes \ {"Immediate"}))
        \cup ({"TAX", "INX", "BRK"} \X {"NoneAddressing"})

\* the table is a lazy static, built on first use and read-only afterwards:
\* a property of the table is a property of every state of a constructed CPU
Constructed == calls[1] = "new"

\* C3: the opcode table has a descriptor for every required pair of a
\* mnemonic and an addressing mode.
C3_TableHasRequiredEntries ==
    Constructed =>
    \A pair \in RequiredEntries :
        \E i \in 1 .. Len(CPU_OP_CODES) :
            CPU_OP_CODES[i].mnemonic = pair[1] /\ CPU_OP_CODES[i].mode = pair[2]

\* the reference 6502 instruction set, for the opcode values of the table:
\* opcode, mnemonic, bytes, cycles, addressing mode
Reference6502 ==
    { <<105, "ADC", 2, 2, "Immediate">>, <<101, "ADC", 2, 3, "ZeroPage">>,
      <<117, "ADC", 2, 4, "ZeroPageX">>, <<109, "ADC", 3, 4, "Absolute">>,
      <<125, "ADC", 3, 4, "AbsoluteX">>, <<121, "ADC", 3, 4, "AbsoluteY">>,
      <<97, "ADC", 2, 6, "IndirectX">>, <<113, "ADC", 2, 5, "IndirectY">>,
      <<169, "LDA", 2, 2, "Immediate">>, <<165, "LDA", 2, 3, "ZeroPage">>,
      <<181, "LDA", 2, 4, "ZeroPageX">>, <<173, "LDA", 3, 4, "Absolute">>,
      <<189, "LDA", 3, 4, "AbsoluteX">>, <<185, "LDA", 3, 4, "AbsoluteY">>,
      <<161, "LDA", 2, 6, "IndirectX">>, <<177, "LDA", 2, 5, "IndirectY">>,
      <<133, "STA", 2, 3, "ZeroPage">>, <<149, "STA", 2, 4, "ZeroPageX">>,
      <<141, "STA", 3, 4, "Absolute">>, <<157, "STA", 3, 5, "AbsoluteX">>,
      <<153, "STA", 3, 5, "AbsoluteY">>, <<129, "STA", 2, 6, "IndirectX">>,
      <<145, "STA", 2, 6, "IndirectY">>,
      <<170, "TAX", 1, 2, "NoneAddressing">>,
      <<232, "INX", 1, 2, "NoneAddressing">>,
      <<0, "BRK", 1, 7, "NoneAddressing">> }

\* C4: for every opcode value of the table, from_u8 returns the descriptor
\* whose mnemonic, mode, byte length and cycle count are those of the
\* reference instruction set.
C4_TableMatchesReference ==
    Constructed =>
    \A byte \in Byte :
        InTable(byte) =>
            LET op == from_u8(byte).val
            IN  <<op.hex, op.mnemonic, op.bytes, op.cycles, op.mode>>
                    \in Reference6502

\* the run loop is about to fetch a byte that has no table entry
FetchesUnknownOpcode ==
    /\ outcome = Pending
    /\ program_counter < 65535
    /\ ~InTable(Cell(memory, program_counter))

C8_LoadThenReset ==
    (/\ Len(calls) >= 3
     /\ calls[Len(calls)] = "reset"
     /\ calls[Len(calls) - 1] = "load")
        => /\ outcome = Ok
           /\ program_counter = 32768
           /\ Word(memory, 65532) = 32768

\* load of a program that covers the reset vector, then reset, from a prior
\* state whose vector held 0x1234
C8_Witness ==
    /\ calls = <<"new", "load", "reset">>
    /\ Cell(memory, 65531) = 232
    /\ Cell(memory, 65534) = 9
    /\ program_counter = 32768
    /\ y = 1

\* the effect the claim gives load(p): the image verbatim from 0x8000, the
\* reset vector 0x8000, every other cell and every register unchanged
LoadPost(p) ==
    /\ outcome' = Ok
    /\ \A i \in 1 .. Len(p) : Cell(memory', 32768 + (i - 1)) = p[i]
    /\ Cell(memory', 65532) = 0
    /\ Cell(memory', 65533) = 128
    /\ \A addr \in 0 .. 65534 :
          (addr < 32768 \/ addr >= 32768 + Len(p)) /\ addr \notin {65532, 65533}
              => Cell(memory', addr) = Cell(memory, addr)
    /\ UNCHANGED <<Registers, program_counter>>

\* C9 as stated: load(p), for every program p that fits between 0x8000 and
\* the end of memory, leaves the image verbatim in memory, the reset vector
\* 0x8000, every other cell and every register unchanged.
C9_LoadFrame ==
    [][(calls' = Append(calls, "load") /\ 32768 + Len(input') <= 65536)
          => LoadPost(input')]_vars

\* C9 as amended: the same for every program p that ends below the reset
\* vector (len(p) <= 0x7FFC); a longer program has its bytes at 0xFFFC and
\* 0xFFFD replaced by the vector.
C9_LoadFrameBelowVector ==
    [][(calls' = Append(calls, "load") /\ 32768 + Len(input') <= 65532)
          => LoadPost(input')]_vars

\* a program that ends at 0xFFFB is loaded over a prior memory; the cell
\* below it, the cell above the vector and the registers are the prior ones
C9_Witness ==
    /\ calls = <<"new", "load">>
    /\ outcome = Ok
    /\ Cell(memory, 32768) = 232
    /\ Cell(memory, 65531) = 232
    /\ Word(memory, 65532) = 32768
    /\ Cell(memory, 65534) = 9
    /\ Cell(memory, 16) = 5
    /\ a = 170
    /\ status = 195

\* the registers and flags C6 gives for the operand v
LdaTaxInxResult(v) ==
    /\ a = v
    /\ x = (v + 1) % 256
    /\ FlagSet(status, ZERO_FLAG) <=> x = 0
    /\ FlagSet(status, NEGATIVE_FLAG) <=> x >= 128

\* C6: load_and_run of LDA #v; TAX; INX; BRK on a new CPU, for every byte
\* v, does not panic, is inside the loop only at one of the four instructions
\* with the ones before it done, and has returned with A = v, X = (v + 1)
\* mod 256, the zero flag set iff X = 0 and the negative flag set iff bit 7
\* of X is set; for v = 0xC0: A = 0xC0, X = 0xC1, zero clear, negative set.
C6_LdaTaxInx ==
    calls = <<"new", "load_and_run">> =>
        LET v == input[2]
        IN  /\ outcome \in {Pending, Ok}
            /\ outcome = Pending =>
                   \/ program_counter = 32768 /\ a = 0 /\ x = 0
                   \/ program_counter = 32770 /\ a = v /\ x = 0
                   \/ program_counter = 32771 /\ a = v /\ x = v
                   \/ program_counter = 32772 /\ LdaTaxInxResult(v)
            /\ outcome = Ok => program_counter = 32773 /\ LdaTaxInxResult(v)
            /\ outcome = Ok /\ v = 192 =>
                   /\ a = 192
                   /\ x = 193
                   /\ ~FlagSet(status, ZERO_FLAG)
                   /\ FlagSet(status, NEGATIVE_FLAG)

\* the run of the test test_5_ops_working_together has returned
C6_Witness ==
    /\ calls = <<"new", "load_and_run">>
    /\ input = LdaTaxInx(192)
    /\ outcome = Ok
    /\ a = 192
    /\ x = 193
    /\ status = 128
    /\ program_counter = 32773

\* what C7 gives for n INX and a BRK: no panic and no carry; inside the
\* loop, as many INX done as the program counter is past 0x8000, none past
\* the BRK; after it, X = n mod 256 and, for n >= 1, zero iff X = 0
InxResult(n) ==
    /\ outcome \in {Pending, Ok}
    /\ ~FlagSet(status, CARRY_FLAG)
    /\ outcome = Pending =>
           /\ program_counter \in 32768 .. 32768 + n
           /\ x = (program_counter - 32768) % 256
    /\ outcome = Ok =>
           /\ x = n % 256
           /\ n >= 1 => (FlagSet(status, ZERO_FLAG) <=> n % 256 = 0)

\* C7 as stated: for every n >= 0, load_and_run of n INX and a BRK returns
\* with X = n mod 256, the zero flag set iff n mod 256 = 0 (n >= 1) and the
\* carry flag never set.
C7_InxEveryCount ==
    calls = <<"new", "load_and_run">> => InxResult(Len(input) - 1)

\* C7 as amended: the same for every n <= 0x7FFC, the programs whose BRK
\* is at or below 0xFFFC.
C7_InxBelowVector ==
    calls = <<"new", "load_and_run">> /\ Len(input) - 1 <= 32764
        => InxResult(Len(input) - 1)

\* the run of 256 INX has returned with X wrapped to 0 and the zero flag set
C7_Witness ==
    /\ calls = <<"new", "load_and_run">>
    /\ Len(input) = 257
    /\ outcome = Ok
    /\ x = 0
    /\ FlagSet(status, ZERO_FLAG)
    /\ program_counter = 33025

\* bit 7 of a byte, its sign as a two's complement number
Bit7(b) == b >= 128

\* C10: an iteration of run that fetches ADC #m with accumulator A and carry
\* c leaves, for wide = A + m + c, A' = wide mod 256, carry iff wide > 255,
\* overflow iff ((A xor A') and (m xor A') and 0x80) # 0, i.e. iff the sign of
\* A' differs from the sign of A and from the sign of m, zero iff A' = 0 and
\* negative iff bit 7 of A' is set; 0xFF + 1 gives 0x00 with carry and zero
\* and no overflow, 0x7F + 1 gives 0x80 with overflow and negative and no
\* zero, and ADC of m with A = 0 and status = 0 gives A' = m.
C10_Adc ==
    [][outcome = Pending /\ Cell(memory, program_counter) = 105 =>
          LET m == Cell(memory, program_counter + 1)
              c == IF FlagSet(status, CARRY_FLAG) THEN 1 ELSE 0
              wide == a + m + c
          IN  /\ outcome' = Pending
              /\ a' = wide % 256
              /\ FlagSet(status', CARRY_FLAG) <=> wide > 255
              /\ FlagSet(status', OVERFLOW_FLAG) <=>
                     Bit7(a) # Bit7(a') /\ Bit7(m) # Bit7(a')
              /\ FlagSet(status', ZERO_FLAG) <=> a' = 0
              /\ FlagSet(status', NEGATIVE_FLAG) <=> Bit7(a')
              /\ a = 255 /\ m = 1 /\ c = 0 =>
                     /\ a' = 0
                     /\ FlagSet(status', CARRY_FLAG)
                     /\ FlagSet(status', ZERO_FLAG)
                     /\ ~FlagSet(status', OVERFLOW_FLAG)
              /\ a = 127 /\ m = 1 /\ c = 0 =>
                     /\ a' = 128
                     /\ FlagSet(status', OVERFLOW_FLAG)
                     /\ FlagSet(status', NEGATIVE_FLAG)
                     /\ ~FlagSet(status', ZERO_FLAG)
              /\ a = 0 /\ status = 0 => a' = m]_vars

\* ADC #1 has run with A = 0x7F, or with A = 0x7E and the carry, and made
\* 0x80: overflow and negative set, zero and carry clear
C10_Witness ==
    /\ input = AdcImmediate(1)
    /\ outcome = Pending
    /\ program_counter = 32770
    /\ a = 128
    /\ status = 192

\* bit k of a byte
Bit(b, k) == (b \div (2 ^ k)) % 2

\* C11: the step of LDA #r, of TAX (r = A) and of INX (r = X + 1 mod 256)
\* puts r in its register and leaves the zero flag set iff r = 0, the
\* negative flag set iff bit 7 of r is set and every other bit of status,
\* carry and overflow included, as it was; INX with X = 0xFF gives X = 0,
\* zero set, negative clear and the carry of before.
C11_ZeroNegativeFrame ==
    [][outcome = Pending /\ Cell(memory, program_counter) \in {169, 170, 232} =>
          LET op == Cell(memory, program_counter)
              r == CASE op = 169 -> Cell(memory, program_counter + 1)
                     [] op = 170 -> a
                     [] op = 232 -> (x + 1) % 256
          IN  /\ outcome' = Pending
              /\ op = 169 => a' = r
              /\ op \in {170, 232} => x' = r
              /\ Bit(status', 1) = (IF r = 0 THEN 1 ELSE 0)
              /\ Bit(status', 7) = Bit(r, 7)
              /\ \A k \in {0, 2, 3, 4, 5, 6} : Bit(status', k) = Bit(status, k)
              /\ op = 232 /\ x = 255 =>
                     /\ x' = 0
                     /\ FlagSet(status', ZERO_FLAG)
                     /\ ~FlagSet(status', NEGATIVE_FLAG)
                     /\ FlagSet(status', CARRY_FLAG) <=> FlagSet(status, CARRY_FLAG)]_vars

\* INX has run with X = 0xFF over a status with carry, overflow and
\* negative set: X = 0, zero set, negative clear, carry and overflow kept
C11_Witness ==
    /\ input = InxOnce
    /\ outcome = Pending
    /\ program_counter = 32769
    /\ x = 0
    /\ status = 67

\* C12: an iteration of run that fetches AND #m (0x29) or AND abs (0x2D)
\* with the accumulator holding a goes on with A = a AND m, the zero and
\* negative flags those of the result and carry and overflow unchanged (the
\* BRK that follows then ends run normally).
C12_AndThenBrk ==
    [][outcome = Pending /\ program_counter < 65533
          /\ Cell(memory, program_counter) \in {41, 45} =>
          LET m == IF Cell(memory, program_counter) = 41
                   THEN Cell(memory, program_counter + 1)
                   ELSE Cell(memory, Word(memory, program_counter + 1))
          IN  /\ outcome' = Pending
              /\ a' = BitAnd(a, m)
              /\ FlagSet(status', ZERO_FLAG) <=> a' = 0
              /\ FlagSet(status', NEGATIVE_FLAG) <=> a' >= 128
              /\ FlagSet(status', CARRY_FLAG) <=> FlagSet(status, CARRY_FLAG)
              /\ FlagSet(status', OVERFLOW_FLAG) <=> FlagSet(status, OVERFLOW_FLAG)]_vars

\* the operand byte and the little-endian operand word at the program counter
OperandByte == Cell(memory, program_counter)

OperandWord == Word(memory, program_counter)

\* C13: ZeroPageX and ZeroPageY resolve to (operand byte + X or Y) mod 256,
\* an address in 0x0000..0x00FF (0xFF with X = 2 gives 0x0001), and
\* AbsoluteX and AbsoluteY to (operand word + X or Y) mod 65536.
C13_IndexedWraps ==
    [][/\ Resolve("ZeroPageX") =>
             /\ outcome' = Resolved("ZeroPageX", (OperandByte + x) % 256)
             /\ outcome'.val \in 0 .. 255
             /\ OperandByte = 255 /\ x = 2 => outcome'.val = 1
       /\ Resolve("ZeroPageY") =>
             /\ outcome' = Resolved("ZeroPageY", (OperandByte + y) % 256)
             /\ outcome'.val \in 0 .. 255
       /\ Resolve("AbsoluteX") =>
             outcome' = Resolved("AbsoluteX", (OperandWord + x) % 65536)
       /\ Resolve("AbsoluteY") =>
             outcome' = Resolved("AbsoluteY", (OperandWord + y) % 65536)]_vars

\* ZeroPageX of the operand 0xFF with X = 2 has resolved to 0x0001
C13_Witness ==
    /\ outcome = Resolved("ZeroPageX", 1)
    /\ OperandByte = 255
    /\ x = 2

\* C14: IndirectX resolves to the little-endian word stored at the pointer
\* (operand byte + X) mod 256, whatever Y is; IndirectY resolves to (the
\* little-endian word stored at the operand byte, plus Y) mod 65536,
\* whatever X is.
C14_IndirectOrder ==
    [][/\ Resolve("IndirectX") =>
             outcome' = Resolved("IndirectX", Word(memory, (OperandByte + x) % 256))
       /\ Resolve("IndirectY") =>
             outcome' = Resolved("IndirectY",
                                 (Word(memory, OperandByte) + y) % 65536)]_vars

\* IndirectX of the operand 0xFF with X = 2 has read the pointer at 0x0001,
\* and the word there is not the word at 0x00FF plus 2
C14_Witness ==
    /\ outcome = Resolved("IndirectX", Word(memory, 1))
    /\ OperandByte = 255
    /\ x = 2
    /\ y = 128
    /\ Word(memory, 1) # (Word(memory, 255) + 2) % 65536

\* the effective address of a mode with the first operand byte at pc, as
\* C13 and C14 give it
EffectiveAddress(mode, pc) ==
    LET byte == Cell(memory, pc)
        word == Word(memory, pc)
    IN  CASE mode = "Immediate" -> pc
          [] mode = "ZeroPage" -> byte
          [] mode = "ZeroPageX" -> (byte + x) % 256
          [] mode = "ZeroPageY" -> (byte + y) % 256
          [] mode = "Absolute" -> word
          [] mode = "AbsoluteX" -> (word + x) % 65536
          [] mode = "AbsoluteY" -> (word + y) % 65536
          [] mode = "IndirectX" -> Word(memory, (byte + x) % 256)
          [] mode = "IndirectY" -> (Word(memory, byte) + y) % 65536

\* the run loop is about to fetch the opcode of a table entry other than BRK
FetchesInstruction ==
    /\ outcome = Pending
    /\ program_counter < 65535
    /\ InTable(Cell(memory, program_counter))
    /\ Cell(memory, program_counter) # 0

\* C15: a step that fetches a non-BRK opcode of the table at p runs the
\* handler with the operand resolved at p + 1 (LDA loads, STA stores and ADC
\* adds the cell at the effective address of the descriptor's mode at p + 1)
\* and ends with the program counter at p + descriptor.bytes.
C15_FetchHandlerAdvance ==
    [][FetchesInstruction =>
          LET p == program_counter
              d == from_u8(Cell(memory, p)).val
              ea == EffectiveAddress(d.mode, p + 1)
          IN  /\ outcome' = Pending
              /\ program_counter' = p + d.bytes
              /\ d.mnemonic = "LDA" => a' = Cell(memory, ea)
              /\ d.mnemonic = "STA" => Cell(memory', ea) = a
              /\ d.mnemonic = "ADC" =>
                     a' = (a + Cell(memory, ea) + Bit(status, 0)) % 256
              /\ d.mnemonic = "TAX" => x' = a
              /\ d.mnemonic = "INX" => x' = (x + 1) % 256]_vars

\* C17: a step that fetches STA writes A to the cell at the effective
\* address and changes no other cell, no register and no status bit; the
\* program counter advances past the instruction.
C17_StaFrame ==
    [][FetchesInstruction
          /\ from_u8(Cell(memory, program_counter)).val.mnemonic = "STA" =>
          LET p == program_counter
              d == from_u8(Cell(memory, p)).val
              ea == EffectiveAddress(d.mode, p + 1)
          IN  /\ outcome' = Pending
              /\ Cell(memory', ea) = a
              /\ \A q \in 0 .. 255 :
                     PageAt(memory', q) # PageAt(memory, q) =>
                         /\ q = PageOf(ea)
                         /\ \A i \in 1 .. 256 :
                                i # OffsetOf(ea) + 1 =>
                                    PageAt(memory', q)[i] = PageAt(memory, q)[i]
              /\ UNCHANGED Registers
              /\ program_counter' = p + d.bytes]_vars

\* C16: run never calls the resolver with NoneAddressing: no call ends in
\* the panic of that arm, every table entry with that mode is TAX, INX or
\* BRK, and every entry of ADC, AND, LDA or STA has another mode.
C16_ImpliedNeverResolved ==
    Constructed =>
        /\ outcome # Panicked(ModePanic)
        /\ \A i \in 1 .. Len(CPU_OP_CODES) :
               LET d == CPU_OP_CODES[i]
               IN  /\ d.mode = "NoneAddressing" => d.mnemonic \in {"TAX", "INX", "BRK"}
                   /\ d.mnemonic \in {"ADC", "AND", "LDA", "STA"} =>
                          d.mode # "NoneAddressing"

\* run has executed TAX and INX, the entries with NoneAddressing, and
\* returned at BRK
C16_Witness ==
    /\ Last(calls) = "load_and_run"
    /\ input = <<169, 192, 170, 232, 0>>
    /\ outcome = Ok
    /\ x = 193

\* C18: no two entries of the opcode table have the same opcode byte, and
\* from_u8 of the opcode byte of an entry returns that entry.
C18_OneDescriptorPerOpcode ==
    Constructed =>
        /\ \A i, j \in 1 .. Len(CPU_OP_CODES) :
               CPU_OP_CODES[i].hex = CPU_OP_CODES[j].hex => i = j
        /\ \A i \in 1 .. Len(CPU_OP_CODES) :
               from_u8(CPU_OP_CODES[i].hex) = Return(CPU_OP_CODES[i])

\* run has looked up 0xa9 and 0xaa in the table and executed LDA #$C0; TAX
C18_Witness ==
    /\ Last(calls) = "load_and_run"
    /\ outcome = Pending
    /\ program_counter = 32771
    /\ a = 192
    /\ x = 192

\* C19: every iteration of run either ends run or leaves the program
\* counter, a u16, strictly greater than it was, so run stops after at most
\* 65536 iterations; and run returns normally only from an iteration that
\* fetched BRK, every other end being a panic.
C19_RunStops ==
    [][outcome = Pending =>
          /\ program_counter' \in 0 .. 65535
          /\ outcome' = Pending => program_counter' > program_counter
          /\ outcome' # Pending =>
                 \/ outcome' = Ok /\ Cell(memory, program_counter) = 0
                 \/ outcome'.kind = "panic"]_vars

\* run has executed three INX against the end of memory, without a BRK,
\* and was ended by the fetch past the last cell
C19_Witness ==
    /\ input = <<232, 232, 232>>
    /\ outcome = Panicked(IndexPanic)
    /\ program_counter = 65535
    /\ x = 3

\* the calls so far are of new, load, reset, run and load_and_run only
OnlyLoadResetRun ==
    \A i \in 1 .. Len(calls) :
        calls[i] \in {"new", "load", "reset", "run", "load_and_run"}

\* C20: in every state reached from new() by load, reset, run and
\* load_and_run, inside run included, bits 2, 3, 4 and 5 of status are 0.
C20_UndefinedBitsClear ==
    OnlyLoadResetRun => \A k \in 2 .. 5 : Bit(status, k) = 0

\* LDA #$80; ADC #$80 has run to its BRK: carry, zero and overflow set
C20_Witness ==
    /\ calls = <<"new", "load_and_run">>
    /\ input = <<169, 128, 105, 128, 0>>
    /\ outcome = Ok
    /\ a = 0
    /\ status = 67

====
